---- MODULE Spec2Model ----
(***************************************************************************)
(* Booking form of turnos-booking: the state of the BookingForm component  *)
(* and its handlers, in its two variants:                                  *)
(*   "refined"  src/src/components/BookingForm.jsx (digit-only dni,        *)
(*              debounced patient lookup, fetchWithTimeout)                *)
(*   "strict"   src/unnamed/part_000 (immediate patient lookup, blanks the *)
(*              patient fields when the lookup reports no match)           *)
(* dni and telefono, the two strings the code normalises and measures, are *)
(* sequences of one-character strings; every other text is an opaque       *)
(* string that the code only tests for emptiness and copies.  The remote   *)
(* webhooks are the environment: every response the server can give is a   *)
(* nondeterministic choice.                                                *)
(***************************************************************************)
EXTENDS Integers, Sequences, FiniteSets, TLC

\* ------------------------------------------------------------------ bounds
\* Changes typed or selected in the inputs of the form in one session (the
\* clicks on slot buttons are not counted: they only move hora within the
\* slots on display).
MaxEdits == 4
\* Requests of one kind in flight at once.
MaxInFlight == 2
\* The longest text handed to the dni input in NormSpec.
MaxRawLen == 3
\* Changes made in the tipoTurno and fecha selects in AvailSpec.
MaxScheduleEdits == 3

\* --------------------------------------------------------------- constants
\* checkPatient's and isFormValid's length threshold.
MinDniLen == 8
MinTelDigits == 8

Digits == {"0", "1", "2", "3", "4", "5", "6", "7", "8", "9"}
Separators == {" ", ".", "-"}

\* APPOINTMENT_TYPES: id -> duration in minutes (ids and names kept as atoms).
APPOINTMENT_TYPES ==
    { [id |-> "consulta",             name |-> "Consulta", duration |-> 30],
      [id |-> "limpieza",             name |-> "Limpieza", duration |-> 45],
      [id |-> "ensenanza",            name |-> "Ensenanza de tecnica de cepillado y fluor en ninos", duration |-> 30],
      [id |-> "caries_chicos",        name |-> "Arreglos caries chicos", duration |-> 45],
      [id |-> "caries_grandes",       name |-> "Arreglos caries grandes", duration |-> 60],
      [id |-> "molde_blanqueamiento", name |-> "Toma de molde para blanqueamiento ambulatorio", duration |-> 30],
      [id |-> "molde_relajacion",     name |-> "Toma de molde para placa de relajacion", duration |-> 30],
      [id |-> "instalacion_placas",   name |-> "Instalacion de placas de relajacion", duration |-> 45],
      [id |-> "carillas",             name |-> "Carillas anteriores", duration |-> 90],
      [id |-> "contenciones",         name |-> "Contenciones", duration |-> 45],
      [id |-> "incrustaciones",       name |-> "Incrustaciones", duration |-> 75] }

\* APPOINTMENT_TYPES.find(t => t.id === tipoTurno)
FindType(id) == CHOOSE t \in APPOINTMENT_TYPES : t.id = id

ErrCheckPatient == "Error al verificar el paciente. Intenta nuevamente."
ErrCreate == "Error al crear el turno"
ErrCreateRetry == "Error al crear el turno. Intenta nuevamente."
Timezone == "America/Argentina/Buenos_Aires"
Ninguna == "Ninguna"
Ninguno == "Ninguno"

\* ------------------------------------------------------------------ fields
\* Fields holding a sequence of characters; the others hold a string.
SeqFields == {"dni", "telefono"}
StrFields == {"nombre", "obraSocial", "numeroAfiliado", "alergias",
              "antecedentes", "tipoTurno", "fecha", "hora"}
Fields == SeqFields \cup StrFields
PatientFields == {"nombre", "telefono", "obraSocial", "numeroAfiliado",
                  "alergias", "antecedentes"}

\* '' of the field's representation.
Blank(f) == IF f \in SeqFields THEN << >> ELSE ""

\* useState({dni: '', nombre: '', ...})
EmptyForm == [f \in Fields |-> Blank(f)]

\* a || b on two values of one representation (a falsy exactly when empty).
OrElse(a, b, blank) == IF a # blank THEN a ELSE b

\* --------------------------------------------------------- inputs (bounded)
\* Raw text typed into the dni input.
Dni7 == <<"1", "2", "3", "4", "5", "6", "7">>
DniA == <<"1", "2", ".", "3", "4", "5", ".", "6", "7", "8">>
DniB == <<"8", "7", "6", "5", "4", "3", "2", "1">>
DniInputs == {Dni7, DniA, DniB}
\* Raw text typed into the telefono input: ten digits with separators, and
\* eight characters holding seven digits.
TelLong == <<"3", "8", "1", "-", "5", "5", "5", " ", "1", "2", "3", "4">>
TelPlus == <<"+", "5", "4", "3", "8", "1", "5", "5">>
TelInputs == {TelLong, TelPlus}
\* The options of the two selects ('' is the placeholder option).
TipoInputs == {"", "consulta", "carillas"}
FechaInputs == {"", "2025-03-04", "2025-03-05"}

\* What the user types or selects, per field.
RawInputs(f) ==
    CASE f = "dni" -> DniInputs
      [] f = "telefono" -> TelInputs
      [] f = "nombre" -> {"", "Ana"}
      [] f = "obraSocial" -> {"OSDE"}
      [] f = "numeroAfiliado" -> {"77"}
      [] f = "alergias" -> {"", "Polen"}
      [] f = "antecedentes" -> {"Asma"}
      [] f = "tipoTurno" -> TipoInputs
      [] f = "fecha" -> FechaInputs

\* -------------------------------------------------- server responses (bounded)
\* A patient record: the localized and the English key of each attribute; an
\* absent key and an empty value are both falsy and are both written blank.
PatientKeys == {"nombre", "name", "telefono", "phone", "obraSocial", "insurance",
                "numeroAfiliado", "affiliateNumber", "alergias", "allergies",
                "antecedentes", "background"}
LocalizedKeys == {"nombre", "telefono", "obraSocial", "numeroAfiliado",
                  "alergias", "antecedentes"}
SeqKeys == {"telefono", "phone"}
KeyBlank(k) == IF k \in SeqKeys THEN << >> ELSE ""
KeyValue(k) ==
    CASE k = "telefono" -> <<"3", "8", "1", "1", "2", "3", "4", "5", "6", "7">>
      [] k = "phone" -> <<"1", "1", " ", "4", "4">>
      [] OTHER -> k \o "!"
\* The records the server answers with: every key, localized keys only,
\* English keys only, no key.
PatientWith(keys) == [k \in PatientKeys |-> IF k \in keys THEN KeyValue(k) ELSE KeyBlank(k)]
Patients == { PatientWith(PatientKeys), PatientWith(LocalizedKeys),
              PatientWith(PatientKeys \ LocalizedKeys), PatientWith({}) }
\* A parsed body of the patient lookup: JSON null, or an object with found and
\* an optional patient.
PatientBodies ==
    { [isNull |-> TRUE, found |-> FALSE, hasPatient |-> FALSE, patient |-> PatientWith({})] }
    \cup { [isNull |-> FALSE, found |-> fnd, hasPatient |-> FALSE, patient |-> PatientWith({})]
           : fnd \in BOOLEAN }
    \cup { [isNull |-> FALSE, found |-> FALSE, hasPatient |-> TRUE,
             patient |-> PatientWith(PatientKeys)] }
    \cup { [isNull |-> FALSE, found |-> TRUE, hasPatient |-> TRUE, patient |-> p]
           : p \in Patients }
\* A parsed body of the availability lookup.
SlotLists == { << >>, <<"10:00">>, <<"10:00", "15:30">> }
AvailBodies ==
    { [isNull |-> TRUE, hasSlots |-> FALSE, slots |-> << >>],
      [isNull |-> FALSE, hasSlots |-> FALSE, slots |-> << >>] }
    \cup { [isNull |-> FALSE, hasSlots |-> TRUE, slots |-> sl] : sl \in SlotLists }
\* A parsed error body of the appointment creation.
CreateBodies ==
    { [isNull |-> TRUE, message |-> ""],
      [isNull |-> FALSE, message |-> ""],
      [isNull |-> FALSE, message |-> "Horario ocupado"] }

\* How a fetch() promise rejects.
RejectCauses == {"network", "timeout"}

\* -------------------------------------------------------------------- state
VARIABLES
    variant,              \* "refined" | "strict": which file is running
    formData,
    loading,
    checkingPatient,
    patientFound,
    patientSearched,      \* refined only
    availableSlots,
    loadingAvailability,
    success,
    error,
    dniDebounceRef,       \* refined only: the id of the last timer set, 0 = null
    timers,               \* refined only: pending debounce timers [id, dni]
    patientReqs,          \* patient lookups in flight, in the order issued
    availReqs,            \* availability lookups in flight, in the order issued
    createReqs,           \* appointment creations in flight, in the order issued
    edits,                \* changes made in the inputs and selects so far
    lastDone,             \* history: how the patient lookups completed so far
    answered,             \* history: the availability lookups completed so far (AvailSpec)
    calc                  \* the client's clock and what the date computations make of it

vars == <<variant, formData, loading, checkingPatient, patientFound, patientSearched,
          availableSlots, loadingAvailability, success, error, dniDebounceRef,
          timers, patientReqs, availReqs, createReqs, edits, lastDone, answered,
          calc>>

\* The history of the patient lookups: done, dni, found and patient describe
\* the lookup that last completed with a parsed body (done: there is one;
\* found: it reported a match, with that patient record); failed tells that
\* the lookup that completed last of all ended in checkPatient's catch.
NoLookup == [done |-> FALSE, dni |-> << >>, found |-> FALSE, failed |-> FALSE,
             patient |-> PatientWith({})]
Completed(dni, data) ==
    [done |-> TRUE, dni |-> dni, found |-> data.found /\ data.hasPatient, failed |-> FALSE,
     patient |-> IF data.found /\ data.hasPatient THEN data.patient ELSE PatientWith({})]

\* The date computations are followed in PureSpec; in Spec fecha and hora stay
\* the texts selected and the clock is not read. rawValue is the text an
\* onChange of the dni input hands to handleInputChange in NormSpec.
NoISO == [y |-> 0, mo |-> 0, d |-> 0, hh |-> 0, mi |-> 0, sign |-> "+", oh |-> 0, om |-> 0]
NoCalc == [fecha |-> [y |-> 0, mo |-> 0, d |-> 0], hora |-> <<0, 0>>, now |-> 0,
           tzOffset |-> 0, isoDone |-> FALSE, appointmentISO |-> NoISO,
           datesDone |-> FALSE, availableDates |-> << >>, rawValue |-> << >>]

Init ==
    /\ variant \in {"refined", "strict"}
    /\ formData = EmptyForm
    /\ loading = FALSE
    /\ checkingPatient = FALSE
    /\ patientFound = FALSE
    /\ patientSearched = FALSE
    /\ availableSlots = << >>
    /\ loadingAvailability = FALSE
    /\ success = FALSE
    /\ error = ""
    /\ dniDebounceRef = 0
    /\ timers = {}
    /\ patientReqs = << >>
    /\ availReqs = << >>
    /\ createReqs = << >>
    /\ edits = 0
    /\ lastDone = NoLookup
    /\ answered = << >>
    /\ calc = NoCalc

\* ------------------------------------------------------------------ helpers
\* The sequence without its i-th element.
RemoveAt(s, i) == [j \in 1..(Len(s) - 1) |-> IF j < i THEN s[j] ELSE s[j + 1]]

\* value.replace(/\D/g, '')
StripNonDigits(s) == SelectSeq(s, LAMBDA c : c \in Digits)
\* value.replace(/[ .-]/g, '')
StripSeparators(s) == SelectSeq(s, LAMBDA c : c \notin Separators)


\* The id setTimeout returns: ids are opaque, the smallest one not pending.
NewTimerId(pending) ==
    CHOOSE n \in 1..(Cardinality(pending) + 1) : \A t \in pending : t.id # n

\* Every request issued before the i-th one has now been overtaken by a
\* completed later one.
MarkStale(reqs, i) ==
    [j \in 1..Len(reqs) |-> IF j < i THEN [reqs[j] EXCEPT !.stale = TRUE] ELSE reqs[j]]

\* ===================================================== the refined variant
\* A normalisation that removes the separators only, for dni as for telefono.
R_normalize_SeparatorsOnly(field, rawValue) ==
    IF field = "dni" \/ field = "telefono" THEN StripSeparators(rawValue) ELSE rawValue

\* const value = normalised rawValue (handleInputChange)
R_normalize(field, rawValue) ==
    IF field = "dni" THEN StripNonDigits(rawValue)
    ELSE IF field = "telefono" THEN StripSeparators(rawValue)
    ELSE rawValue

\* checkPatient(dni) up to its first await.
R_checkPatient(dni) ==
    IF Len(dni) < MinDniLen
    THEN /\ patientFound' = FALSE
         /\ patientSearched' = FALSE
         /\ UNCHANGED <<checkingPatient, error, patientReqs>>
    ELSE /\ Len(patientReqs) < MaxInFlight
         /\ checkingPatient' = TRUE
         /\ error' = ""
         /\ patientReqs' = Append(patientReqs, [dni |-> dni, phase |-> "fetch", stale |-> FALSE])
         /\ UNCHANGED <<patientFound, patientSearched>>

\* getAvailableSlots(fecha, tipoTurno) up to its first await.
R_getAvailableSlots(fecha, tipoTurno) ==
    IF fecha = "" \/ tipoTurno = ""
    THEN UNCHANGED <<loadingAvailability, availReqs>>
    ELSE /\ Len(availReqs) < MaxInFlight
         /\ loadingAvailability' = TRUE
         /\ availReqs' = Append(availReqs,
                [fecha |-> fecha, duration |-> FindType(tipoTurno).duration,
                 phase |-> "fetch", ok |-> FALSE])

\* R_dniDebounce without the clearTimeout of the previous timer.
R_dniDebounce_NoCancel(value) ==
    LET id == NewTimerId(timers)
    IN  IF value # << >> /\ Len(value) >= MinDniLen
        THEN /\ timers' = timers \cup {[id |-> id, dni |-> value]}
             /\ dniDebounceRef' = id
             /\ UNCHANGED <<patientFound, patientSearched>>
        ELSE /\ timers' = timers
             /\ patientFound' = FALSE
             /\ patientSearched' = FALSE
             /\ UNCHANGED dniDebounceRef

\* R_dniDebounce whose short-dni branch leaves patientFound as it is.
R_dniDebounce_KeepFound(value) ==
    LET kept == IF dniDebounceRef # 0
                THEN {t \in timers : t.id # dniDebounceRef} ELSE timers
        id == NewTimerId(kept)
    IN  IF value # << >> /\ Len(value) >= MinDniLen
        THEN /\ timers' = kept \cup {[id |-> id, dni |-> value]}
             /\ dniDebounceRef' = id
             /\ UNCHANGED <<patientFound, patientSearched>>
        ELSE /\ timers' = kept
             /\ patientSearched' = FALSE
             /\ UNCHANGED <<patientFound, dniDebounceRef>>

\* The dni branch of handleInputChange: cancel the pending timer, then set a
\* new one or clear the flags.
R_dniDebounce(value) ==
    LET kept == IF dniDebounceRef # 0
                THEN {t \in timers : t.id # dniDebounceRef} ELSE timers
        id == NewTimerId(kept)
    IN  IF value # << >> /\ Len(value) >= MinDniLen
        THEN /\ timers' = kept \cup {[id |-> id, dni |-> value]}
             /\ dniDebounceRef' = id
             /\ UNCHANGED <<patientFound, patientSearched>>
        ELSE /\ timers' = kept
             /\ patientFound' = FALSE
             /\ patientSearched' = FALSE
             /\ UNCHANGED dniDebounceRef

\* R_handleInputChange reading fecha and tipoTurno from the state of the last
\* render instead of the value being set.
R_handleInputChange_Stale(field, rawValue) ==
    LET value == R_normalize(field, rawValue)
    IN  /\ formData' = [formData EXCEPT ![field] = value]
        /\ IF field = "dni"
           THEN R_dniDebounce(value)
           ELSE UNCHANGED <<timers, dniDebounceRef, patientFound, patientSearched>>
        /\ IF field = "fecha" \/ field = "tipoTurno"
           THEN IF formData.fecha # "" /\ formData.tipoTurno # ""
                THEN R_getAvailableSlots(formData.fecha, formData.tipoTurno)
                ELSE UNCHANGED <<loadingAvailability, availReqs>>
           ELSE UNCHANGED <<loadingAvailability, availReqs>>
        /\ UNCHANGED <<variant, calc, answered, loading, checkingPatient, availableSlots, success, error,
                       patientReqs, createReqs, lastDone>>

\* R_handleInputChange clearing hora when fecha or tipoTurno is edited.
R_handleInputChange_ClearsHora(field, rawValue) ==
    LET value == R_normalize(field, rawValue)
        edited == [formData EXCEPT ![field] = value]
        newFormData == IF field = "fecha" \/ field = "tipoTurno"
                       THEN [edited EXCEPT !.hora = ""]
                       ELSE edited
    IN  /\ formData' = newFormData
        /\ IF field = "dni"
           THEN R_dniDebounce(value)
           ELSE UNCHANGED <<timers, dniDebounceRef, patientFound, patientSearched>>
        /\ IF field = "fecha" \/ field = "tipoTurno"
           THEN IF newFormData.fecha # "" /\ newFormData.tipoTurno # ""
                THEN R_getAvailableSlots(newFormData.fecha, newFormData.tipoTurno)
                ELSE UNCHANGED <<loadingAvailability, availReqs>>
           ELSE UNCHANGED <<loadingAvailability, availReqs>>
        /\ UNCHANGED <<variant, calc, answered, loading, checkingPatient, availableSlots, success, error,
                       patientReqs, createReqs, lastDone>>

\* handleInputChange(field, rawValue)
R_handleInputChange(field, rawValue) ==
    LET value == R_normalize(field, rawValue)
        newFormData == [formData EXCEPT ![field] = value]
    IN  /\ formData' = newFormData
        /\ IF field = "dni"
           THEN R_dniDebounce(value)
           ELSE UNCHANGED <<timers, dniDebounceRef, patientFound, patientSearched>>
        /\ IF field = "fecha" \/ field = "tipoTurno"
           THEN IF newFormData.fecha # "" /\ newFormData.tipoTurno # ""
                THEN R_getAvailableSlots(newFormData.fecha, newFormData.tipoTurno)
                ELSE UNCHANGED <<loadingAvailability, availReqs>>
           ELSE UNCHANGED <<loadingAvailability, availReqs>>
        /\ UNCHANGED <<variant, calc, answered, loading, checkingPatient, availableSlots, success, error,
                       patientReqs, createReqs, lastDone>>

\* An onChange of one of the inputs or selects of the form: the event fires
\* when the text or the selection differs from the value on display.
R_EditField ==
    /\ variant = "refined"
    /\ ~success
    /\ edits < MaxEdits
    /\ edits' = edits + 1
    /\ \E field \in Fields \ {"hora"} : \E rawValue \in RawInputs(field) :
          /\ rawValue # formData[field]
          /\ R_handleInputChange(field, rawValue)

\* R_ClickSlot with buttons for a fixed list of hours instead of availableSlots.
R_ClickSlot_FixedHours ==
    /\ variant = "refined"
    /\ ~success
    /\ formData.fecha # "" /\ formData.tipoTurno # ""
    /\ ~loadingAvailability
    /\ \E slot \in {"10:00", "15:30"} : R_handleInputChange("hora", slot)
    /\ UNCHANGED edits

\* A click on one of the slot buttons, rendered while fecha and tipoTurno are
\* set and no availability lookup is shown as loading.
R_ClickSlot ==
    /\ variant = "refined"
    /\ ~success
    /\ formData.fecha # "" /\ formData.tipoTurno # ""
    /\ ~loadingAvailability
    /\ \E i \in 1..Len(availableSlots) : R_handleInputChange("hora", availableSlots[i])
    /\ UNCHANGED edits

\* The debounce timer of a dni edit fires: checkPatient(value).
R_TimerFires ==
    /\ variant = "refined"
    /\ \E t \in timers :
          /\ timers' = timers \ {t}
          /\ R_checkPatient(t.dni)
    /\ UNCHANGED <<variant, calc, answered, formData, loading, availableSlots, loadingAvailability,
                   success, dniDebounceRef, availReqs, createReqs, edits, lastDone>>

\* R_checkPatientCatch without its setPatientFound(false).
R_checkPatientCatch_KeepFound(i) ==
    /\ error' = ErrCheckPatient
    /\ patientSearched' = TRUE
    /\ checkingPatient' = FALSE
    /\ patientReqs' = RemoveAt(MarkStale(patientReqs, i), i)
    /\ lastDone' = [lastDone EXCEPT !.failed = TRUE]
    /\ UNCHANGED <<formData, patientFound>>

\* checkPatient's catch and finally.
R_checkPatientCatch(i) ==
    /\ error' = ErrCheckPatient
    /\ patientFound' = FALSE
    /\ patientSearched' = TRUE
    /\ checkingPatient' = FALSE
    /\ patientReqs' = RemoveAt(MarkStale(patientReqs, i), i)
    /\ lastDone' = [lastDone EXCEPT !.failed = TRUE]
    /\ UNCHANGED formData

\* The fields checkPatient writes from a matching patient record.
R_autofill(prev, patient) ==
    [prev EXCEPT
        !.nombre = OrElse(patient.nombre, OrElse(patient.name, "", ""), ""),
        !.telefono = OrElse(patient.telefono, OrElse(patient.phone, << >>, << >>), << >>),
        !.obraSocial = OrElse(patient.obraSocial, OrElse(patient.insurance, "", ""), ""),
        !.numeroAfiliado = OrElse(patient.numeroAfiliado, OrElse(patient.affiliateNumber, "", ""), ""),
        !.alergias = OrElse(patient.alergias, OrElse(patient.allergies, Ninguna, ""), ""),
        !.antecedentes = OrElse(patient.antecedentes, OrElse(patient.background, Ninguno, ""), "")]

\* R_checkPatientData blanking the patient fields when there is no match.
R_checkPatientData_BlankOnNoMatch(i, data) ==
    IF data.isNull
    THEN R_checkPatientCatch(i)
    ELSE /\ IF data.found /\ data.hasPatient
            THEN /\ formData' = R_autofill(formData, data.patient)
                 /\ patientFound' = TRUE
            ELSE /\ patientFound' = FALSE
                 /\ formData' = [f \in Fields |->
                                    IF f \in PatientFields THEN Blank(f) ELSE formData[f]]
         /\ patientSearched' = TRUE
         /\ checkingPatient' = FALSE
         /\ patientReqs' = RemoveAt(MarkStale(patientReqs, i), i)
         /\ lastDone' = Completed(patientReqs[i].dni, data)
         /\ UNCHANGED error

\* checkPatient after response.json() has resolved with data.
R_checkPatientData(i, data) ==
    IF data.isNull
    THEN R_checkPatientCatch(i)
    ELSE /\ IF data.found /\ data.hasPatient
            THEN /\ formData' = R_autofill(formData, data.patient)
                 /\ patientFound' = TRUE
            ELSE /\ patientFound' = FALSE
                 /\ UNCHANGED formData
         /\ patientSearched' = TRUE
         /\ checkingPatient' = FALSE
         /\ patientReqs' = RemoveAt(MarkStale(patientReqs, i), i)
         /\ lastDone' = Completed(patientReqs[i].dni, data)
         /\ UNCHANGED error

\* fetchWithTimeout rejects: a network error, or the abort of its timeout.
R_PatientFetchRejects ==
    /\ variant = "refined"
    /\ \E i \in 1..Len(patientReqs) :
          /\ patientReqs[i].phase = "fetch"
          /\ R_checkPatientCatch(i)
    /\ UNCHANGED <<variant, calc, answered, loading, availableSlots, loadingAvailability, success,
                   dniDebounceRef, timers, availReqs, createReqs, edits>>

\* fetchWithTimeout resolves with the response headers.
R_PatientFetchResolves ==
    /\ variant = "refined"
    /\ \E i \in 1..Len(patientReqs) : \E ok \in BOOLEAN :
          /\ patientReqs[i].phase = "fetch"
          /\ IF ~ok
             THEN R_checkPatientCatch(i)
             ELSE /\ patientReqs' = [patientReqs EXCEPT ![i].phase = "json"]
                  /\ UNCHANGED <<formData, error, patientFound, patientSearched,
                                 checkingPatient, lastDone>>
    /\ UNCHANGED <<variant, calc, answered, loading, availableSlots, loadingAvailability, success,
                   dniDebounceRef, timers, availReqs, createReqs, edits>>

\* response.json() settles: it rejects (a body that is no JSON), or resolves.
R_PatientJson ==
    /\ variant = "refined"
    /\ \E i \in 1..Len(patientReqs) :
          /\ patientReqs[i].phase = "json"
          /\ \/ R_checkPatientCatch(i)
             \/ \E data \in PatientBodies : R_checkPatientData(i, data)
    /\ UNCHANGED <<variant, calc, answered, loading, availableSlots, loadingAvailability, success,
                   dniDebounceRef, timers, availReqs, createReqs, edits>>


\* getAvailableSlots' catch and finally.
R_getAvailableSlotsCatch(i) ==
    /\ availableSlots' = << >>
    /\ loadingAvailability' = FALSE
    /\ availReqs' = RemoveAt(availReqs, i)

\* R_getAvailableSlotsData with sequencing: the response of a request that is
\* not the last one issued is dropped.
R_getAvailableSlotsData_Sequenced(i, data) ==
    IF i < Len(availReqs)
    THEN /\ availReqs' = RemoveAt(availReqs, i)
         /\ UNCHANGED <<availableSlots, loadingAvailability>>
    ELSE /\ availableSlots' = IF ~data.isNull /\ data.hasSlots THEN data.slots ELSE << >>
         /\ loadingAvailability' = FALSE
         /\ availReqs' = RemoveAt(availReqs, i)

\* getAvailableSlots after response.json() has resolved with data.
R_getAvailableSlotsData(i, data) ==
    IF data.isNull
    THEN R_getAvailableSlotsCatch(i)
    ELSE /\ availableSlots' = IF data.hasSlots THEN data.slots ELSE << >>
         /\ loadingAvailability' = FALSE
         /\ availReqs' = RemoveAt(availReqs, i)

R_AvailFetchRejects ==
    /\ variant = "refined"
    /\ \E i \in 1..Len(availReqs) :
          /\ availReqs[i].phase = "fetch"
          /\ R_getAvailableSlotsCatch(i)
    /\ UNCHANGED <<variant, calc, answered, formData, loading, checkingPatient, patientFound,
                   patientSearched, success, error, dniDebounceRef, timers,
                   patientReqs, createReqs, edits, lastDone>>

R_AvailFetchResolves ==
    /\ variant = "refined"
    /\ \E i \in 1..Len(availReqs) : \E ok \in BOOLEAN :
          /\ availReqs[i].phase = "fetch"
          /\ IF ~ok
             THEN R_getAvailableSlotsCatch(i)
             ELSE /\ availReqs' = [availReqs EXCEPT ![i].phase = "json", ![i].ok = TRUE]
                  /\ UNCHANGED <<availableSlots, loadingAvailability>>
    /\ UNCHANGED <<variant, calc, answered, formData, loading, checkingPatient, patientFound,
                   patientSearched, success, error, dniDebounceRef, timers,
                   patientReqs, createReqs, edits, lastDone>>

R_AvailJson ==
    /\ variant = "refined"
    /\ \E i \in 1..Len(availReqs) :
          /\ availReqs[i].phase = "json"
          /\ \/ R_getAvailableSlotsCatch(i)
             \/ \E data \in AvailBodies : R_getAvailableSlotsData(i, data)
    /\ UNCHANGED <<variant, calc, answered, formData, loading, checkingPatient, patientFound,
                   patientSearched, success, error, dniDebounceRef, timers,
                   patientReqs, createReqs, edits, lastDone>>

\* R_isFormValid asking of telefono only that it is not empty.
R_isFormValid_AnyTelefono ==
    /\ formData.dni # << >> /\ Len(formData.dni) >= MinDniLen
    /\ formData.nombre # ""
    /\ formData.telefono # << >>
    /\ formData.tipoTurno # ""
    /\ formData.fecha # ""
    /\ formData.hora # ""

\* isFormValid()
R_isFormValid ==
    LET dniOk == formData.dni # << >> /\ Len(formData.dni) >= MinDniLen
        telOk == /\ formData.telefono # << >>
                 /\ Len(StripNonDigits(formData.telefono)) >= MinTelDigits
    IN  /\ dniOk
        /\ formData.nombre # ""
        /\ telOk
        /\ formData.tipoTurno # ""
        /\ formData.fecha # ""
        /\ formData.hora # ""

\* R_payload copying alergias as it is in the form.
R_payload_RawAlergias ==
    LET appointmentType == FindType(formData.tipoTurno)
    IN  [dni |-> formData.dni,
         nombre |-> formData.nombre,
         telefono |-> formData.telefono,
         obraSocial |-> formData.obraSocial,
         numeroAfiliado |-> formData.numeroAfiliado,
         alergias |-> formData.alergias,
         antecedentes |-> OrElse(formData.antecedentes, Ninguno, ""),
         tipoTurno |-> formData.tipoTurno,
         tipoTurnoNombre |-> appointmentType.name,
         duracion |-> appointmentType.duration,
         fechaHora |-> <<formData.fecha, formData.hora>>,
         timezone |-> Timezone,
         isNewPatient |-> ~patientFound]

\* The JSON body handleSubmit posts; fechaHora is kept as the fecha and hora
\* it is computed from.
R_payload ==
    LET appointmentType == FindType(formData.tipoTurno)
    IN  [dni |-> formData.dni,
         nombre |-> formData.nombre,
         telefono |-> formData.telefono,
         obraSocial |-> formData.obraSocial,
         numeroAfiliado |-> formData.numeroAfiliado,
         alergias |-> OrElse(formData.alergias, Ninguna, ""),
         antecedentes |-> OrElse(formData.antecedentes, Ninguno, ""),
         tipoTurno |-> formData.tipoTurno,
         tipoTurnoNombre |-> appointmentType.name,
         duracion |-> appointmentType.duration,
         fechaHora |-> <<formData.fecha, formData.hora>>,
         timezone |-> Timezone,
         isNewPatient |-> ~patientFound]

\* R_Submit with a submit button that is not disabled while loading.
R_Submit_EnabledWhileLoading ==
    /\ variant = "refined"
    /\ ~success
    /\ R_isFormValid
    /\ Len(createReqs) < MaxInFlight
    /\ loading' = TRUE
    /\ error' = ""
    /\ createReqs' = Append(createReqs, [payload |-> R_payload, phase |-> "fetch", ok |-> FALSE])
    /\ UNCHANGED <<variant, calc, answered, formData, checkingPatient, patientFound, patientSearched,
                   availableSlots, loadingAvailability, success, dniDebounceRef,
                   timers, patientReqs, availReqs, edits, lastDone>>

\* handleSubmit up to its first await; the submit button is disabled while
\* the form is not valid or a submission is loading.
R_Submit ==
    /\ variant = "refined"
    /\ ~success
    /\ R_isFormValid
    /\ ~loading
    /\ Len(createReqs) < MaxInFlight
    /\ loading' = TRUE
    /\ error' = ""
    /\ createReqs' = Append(createReqs, [payload |-> R_payload, phase |-> "fetch", ok |-> FALSE])
    /\ UNCHANGED <<variant, calc, answered, formData, checkingPatient, patientFound, patientSearched,
                   availableSlots, loadingAvailability, success, dniDebounceRef,
                   timers, patientReqs, availReqs, edits, lastDone>>

\* err.message of what fetch() or response.json() rejects with.
ErrFailedToFetch == "Failed to fetch"
ErrAborted == "The user aborted a request."
ErrBadJson == "Unexpected token < in JSON at position 0"
RejectMessage(cause) == IF cause = "timeout" THEN ErrAborted ELSE ErrFailedToFetch

\* R_handleSubmitCatch without the setLoading(false) of its finally.
R_handleSubmitCatch_KeepLoading(i, message) ==
    /\ error' = OrElse(message, ErrCreateRetry, "")
    /\ createReqs' = RemoveAt(createReqs, i)
    /\ UNCHANGED <<loading, success>>

\* handleSubmit's catch and finally.
R_handleSubmitCatch(i, message) ==
    /\ error' = OrElse(message, ErrCreateRetry, "")
    /\ loading' = FALSE
    /\ createReqs' = RemoveAt(createReqs, i)
    /\ UNCHANGED success

R_CreateFetchRejects ==
    /\ variant = "refined"
    /\ \E i \in 1..Len(createReqs) : \E cause \in RejectCauses :
          /\ createReqs[i].phase = "fetch"
          /\ R_handleSubmitCatch(i, RejectMessage(cause))
    /\ UNCHANGED <<variant, calc, answered, formData, checkingPatient, patientFound, patientSearched,
                   availableSlots, loadingAvailability, dniDebounceRef, timers,
                   patientReqs, availReqs, edits, lastDone>>

R_CreateFetchResolves ==
    /\ variant = "refined"
    /\ \E i \in 1..Len(createReqs) : \E ok \in BOOLEAN :
          /\ createReqs[i].phase = "fetch"
          /\ createReqs' = [createReqs EXCEPT ![i].phase = "json", ![i].ok = ok]
    /\ UNCHANGED <<variant, calc, answered, formData, loading, checkingPatient, patientFound,
                   patientSearched, availableSlots, loadingAvailability, success,
                   error, dniDebounceRef, timers, patientReqs, availReqs, edits,
                   lastDone>>

\* The message of the Error thrown for a non-OK response: parsed is whether
\* response.json() resolved, errorData what it resolved with.
R_errorMessage(parsed, errorData) ==
    IF parsed /\ ~errorData.isNull
    THEN OrElse(errorData.message, ErrCreate, "")
    ELSE ErrCreate

R_CreateJson ==
    /\ variant = "refined"
    /\ \E i \in 1..Len(createReqs) : \E parsed \in BOOLEAN : \E body \in CreateBodies :
          /\ createReqs[i].phase = "json"
          /\ IF ~createReqs[i].ok
             THEN R_handleSubmitCatch(i, R_errorMessage(parsed, body))
             ELSE IF ~parsed
                  THEN R_handleSubmitCatch(i, ErrBadJson)
                  ELSE /\ success' = TRUE
                       /\ loading' = FALSE
                       /\ createReqs' = RemoveAt(createReqs, i)
                       /\ UNCHANGED error
    /\ UNCHANGED <<variant, calc, answered, formData, checkingPatient, patientFound, patientSearched,
                   availableSlots, loadingAvailability, dniDebounceRef, timers,
                   patientReqs, availReqs, edits, lastDone>>

\* ====================================================== the strict variant
\* checkPatient(dni) up to its first await.
S_checkPatient(dni) ==
    IF Len(dni) < MinDniLen
    THEN /\ patientFound' = FALSE
         /\ UNCHANGED <<checkingPatient, error, patientReqs>>
    ELSE /\ Len(patientReqs) < MaxInFlight
         /\ checkingPatient' = TRUE
         /\ error' = ""
         /\ patientReqs' = Append(patientReqs, [dni |-> dni, phase |-> "fetch", stale |-> FALSE])
         /\ UNCHANGED patientFound

\* getAvailableSlots(fecha, tipoTurno) up to its first await.
S_getAvailableSlots(fecha, tipoTurno) ==
    IF fecha = "" \/ tipoTurno = ""
    THEN UNCHANGED <<loadingAvailability, availReqs>>
    ELSE /\ Len(availReqs) < MaxInFlight
         /\ loadingAvailability' = TRUE
         /\ availReqs' = Append(availReqs,
                [fecha |-> fecha, duration |-> FindType(tipoTurno).duration,
                 phase |-> "fetch", ok |-> FALSE])

\* handleInputChange(field, value)
S_handleInputChange(field, value) ==
    LET newFormData == [formData EXCEPT ![field] = value]
    IN  /\ formData' = newFormData
        /\ IF field = "dni"
           THEN S_checkPatient(value)
           ELSE UNCHANGED <<checkingPatient, error, patientReqs, patientFound>>
        /\ IF field = "fecha" \/ field = "tipoTurno"
           THEN IF newFormData.fecha # "" /\ newFormData.tipoTurno # ""
                THEN S_getAvailableSlots(newFormData.fecha, newFormData.tipoTurno)
                ELSE UNCHANGED <<loadingAvailability, availReqs>>
           ELSE UNCHANGED <<loadingAvailability, availReqs>>
        /\ UNCHANGED <<variant, calc, answered, loading, patientSearched, availableSlots, success,
                       dniDebounceRef, timers, createReqs, lastDone>>

S_EditField ==
    /\ variant = "strict"
    /\ ~success
    /\ edits < MaxEdits
    /\ edits' = edits + 1
    /\ \E field \in Fields \ {"hora"} : \E value \in RawInputs(field) :
          /\ value # formData[field]
          /\ S_handleInputChange(field, value)

S_ClickSlot ==
    /\ variant = "strict"
    /\ ~success
    /\ formData.fecha # "" /\ formData.tipoTurno # ""
    /\ ~loadingAvailability
    /\ \E i \in 1..Len(availableSlots) : S_handleInputChange("hora", availableSlots[i])
    /\ UNCHANGED edits

\* checkPatient's catch and finally.
S_checkPatientCatch(i) ==
    /\ error' = ErrCheckPatient
    /\ patientFound' = FALSE
    /\ checkingPatient' = FALSE
    /\ patientReqs' = RemoveAt(MarkStale(patientReqs, i), i)
    /\ lastDone' = [lastDone EXCEPT !.failed = TRUE]
    /\ UNCHANGED formData

\* S_autofill trying the English key before the localized one.
S_autofill_EnglishFirst(prev, patient) ==
    [prev EXCEPT
        !.nombre = OrElse(patient.name, OrElse(patient.nombre, "", ""), ""),
        !.telefono = OrElse(patient.phone, OrElse(patient.telefono, << >>, << >>), << >>),
        !.obraSocial = OrElse(patient.insurance, OrElse(patient.obraSocial, "", ""), ""),
        !.numeroAfiliado = OrElse(patient.affiliateNumber, OrElse(patient.numeroAfiliado, "", ""), ""),
        !.alergias = OrElse(patient.allergies, OrElse(patient.alergias, Ninguna, ""), ""),
        !.antecedentes = OrElse(patient.background, OrElse(patient.antecedentes, Ninguno, ""), "")]

\* The fields checkPatient writes from a matching patient record.
S_autofill(prev, patient) ==
    [prev EXCEPT
        !.nombre = OrElse(patient.nombre, OrElse(patient.name, "", ""), ""),
        !.telefono = OrElse(patient.telefono, OrElse(patient.phone, << >>, << >>), << >>),
        !.obraSocial = OrElse(patient.obraSocial, OrElse(patient.insurance, "", ""), ""),
        !.numeroAfiliado = OrElse(patient.numeroAfiliado, OrElse(patient.affiliateNumber, "", ""), ""),
        !.alergias = OrElse(patient.alergias, OrElse(patient.allergies, Ninguna, ""), ""),
        !.antecedentes = OrElse(patient.antecedentes, OrElse(patient.background, Ninguno, ""), "")]

\* S_clearPatient leaving telefono as it is.
S_clearPatient_KeepTelefono(prev) ==
    [prev EXCEPT !.nombre = "", !.obraSocial = "",
                 !.numeroAfiliado = "", !.alergias = "", !.antecedentes = ""]

\* The fields checkPatient blanks when the patient is not found.
S_clearPatient(prev) ==
    [prev EXCEPT !.nombre = "", !.telefono = << >>, !.obraSocial = "",
                 !.numeroAfiliado = "", !.alergias = "", !.antecedentes = ""]

\* checkPatient after response.json() has resolved with data.
S_checkPatientData(i, data) ==
    IF data.isNull
    THEN S_checkPatientCatch(i)
    ELSE /\ IF data.found /\ data.hasPatient
            THEN /\ formData' = S_autofill(formData, data.patient)
                 /\ patientFound' = TRUE
            ELSE /\ formData' = S_clearPatient(formData)
                 /\ patientFound' = FALSE
         /\ checkingPatient' = FALSE
         /\ patientReqs' = RemoveAt(MarkStale(patientReqs, i), i)
         /\ lastDone' = Completed(patientReqs[i].dni, data)
         /\ UNCHANGED error

\* fetch rejects: a network error (this variant sets no timeout).
S_PatientFetchRejects ==
    /\ variant = "strict"
    /\ \E i \in 1..Len(patientReqs) :
          /\ patientReqs[i].phase = "fetch"
          /\ S_checkPatientCatch(i)
    /\ UNCHANGED <<variant, calc, answered, loading, patientSearched, availableSlots, loadingAvailability,
                   success, dniDebounceRef, timers, availReqs, createReqs, edits>>

S_PatientFetchResolves ==
    /\ variant = "strict"
    /\ \E i \in 1..Len(patientReqs) : \E ok \in BOOLEAN :
          /\ patientReqs[i].phase = "fetch"
          /\ IF ~ok
             THEN S_checkPatientCatch(i)
             ELSE /\ patientReqs' = [patientReqs EXCEPT ![i].phase = "json"]
                  /\ UNCHANGED <<formData, error, patientFound, checkingPatient, lastDone>>
    /\ UNCHANGED <<variant, calc, answered, loading, patientSearched, availableSlots, loadingAvailability,
                   success, dniDebounceRef, timers, availReqs, createReqs, edits>>

S_PatientJson ==
    /\ variant = "strict"
    /\ \E i \in 1..Len(patientReqs) :
          /\ patientReqs[i].phase = "json"
          /\ \/ S_checkPatientCatch(i)
             \/ \E data \in PatientBodies : S_checkPatientData(i, data)
    /\ UNCHANGED <<variant, calc, answered, loading, patientSearched, availableSlots, loadingAvailability,
                   success, dniDebounceRef, timers, availReqs, createReqs, edits>>

\* getAvailableSlots' catch and finally.
S_getAvailableSlotsCatch(i) ==
    /\ availableSlots' = << >>
    /\ loadingAvailability' = FALSE
    /\ availReqs' = RemoveAt(availReqs, i)

\* getAvailableSlots after response.json() has resolved with data.
S_getAvailableSlotsData(i, data) ==
    IF data.isNull
    THEN S_getAvailableSlotsCatch(i)
    ELSE /\ availableSlots' = IF data.hasSlots THEN data.slots ELSE << >>
         /\ loadingAvailability' = FALSE
         /\ availReqs' = RemoveAt(availReqs, i)

S_AvailFetchRejects ==
    /\ variant = "strict"
    /\ \E i \in 1..Len(availReqs) :
          /\ availReqs[i].phase = "fetch"
          /\ S_getAvailableSlotsCatch(i)
    /\ UNCHANGED <<variant, calc, answered, formData, loading, checkingPatient, patientFound,
                   patientSearched, success, error, dniDebounceRef, timers,
                   patientReqs, createReqs, edits, lastDone>>

\* fetch resolves with the response headers; response.ok is not looked at.
S_AvailFetchResolves ==
    /\ variant = "strict"
    /\ \E i \in 1..Len(availReqs) : \E ok \in BOOLEAN :
          /\ availReqs[i].phase = "fetch"
          /\ availReqs' = [availReqs EXCEPT ![i].phase = "json", ![i].ok = ok]
    /\ UNCHANGED <<variant, calc, answered, formData, loading, checkingPatient, patientFound,
                   patientSearched, availableSlots, loadingAvailability, success,
                   error, dniDebounceRef, timers, patientReqs, createReqs, edits,
                   lastDone>>

S_AvailJson ==
    /\ variant = "strict"
    /\ \E i \in 1..Len(availReqs) :
          /\ availReqs[i].phase = "json"
          /\ \/ S_getAvailableSlotsCatch(i)
             \/ \E data \in AvailBodies : S_getAvailableSlotsData(i, data)
    /\ UNCHANGED <<variant, calc, answered, formData, loading, checkingPatient, patientFound,
                   patientSearched, success, error, dniDebounceRef, timers,
                   patientReqs, createReqs, edits, lastDone>>

\* isFormValid()
S_isFormValid ==
    /\ formData.dni # << >>
    /\ formData.nombre # ""
    /\ formData.telefono # << >>
    /\ formData.tipoTurno # ""
    /\ formData.fecha # ""
    /\ formData.hora # ""

\* The JSON body handleSubmit posts; fechaHora is kept as the fecha and hora
\* it is computed from.
S_payload ==
    LET appointmentType == FindType(formData.tipoTurno)
    IN  [dni |-> formData.dni,
         nombre |-> formData.nombre,
         telefono |-> formData.telefono,
         obraSocial |-> formData.obraSocial,
         numeroAfiliado |-> formData.numeroAfiliado,
         alergias |-> OrElse(formData.alergias, Ninguna, ""),
         antecedentes |-> OrElse(formData.antecedentes, Ninguno, ""),
         tipoTurno |-> formData.tipoTurno,
         tipoTurnoNombre |-> appointmentType.name,
         duracion |-> appointmentType.duration,
         fechaHora |-> <<formData.fecha, formData.hora>>,
         timezone |-> Timezone,
         isNewPatient |-> ~patientFound]

S_Submit ==
    /\ variant = "strict"
    /\ ~success
    /\ S_isFormValid
    /\ ~loading
    /\ Len(createReqs) < MaxInFlight
    /\ loading' = TRUE
    /\ error' = ""
    /\ createReqs' = Append(createReqs, [payload |-> S_payload, phase |-> "fetch", ok |-> FALSE])
    /\ UNCHANGED <<variant, calc, answered, formData, checkingPatient, patientFound, patientSearched,
                   availableSlots, loadingAvailability, success, dniDebounceRef,
                   timers, patientReqs, availReqs, edits, lastDone>>

\* S_handleSubmitCatch showing the confirmation all the same.
S_handleSubmitCatch_Succeeds(i, message) ==
    /\ error' = OrElse(message, ErrCreateRetry, "")
    /\ loading' = FALSE
    /\ createReqs' = RemoveAt(createReqs, i)
    /\ success' = TRUE

\* handleSubmit's catch and finally.
S_handleSubmitCatch(i, message) ==
    /\ error' = OrElse(message, ErrCreateRetry, "")
    /\ loading' = FALSE
    /\ createReqs' = RemoveAt(createReqs, i)
    /\ UNCHANGED success

S_CreateFetchRejects ==
    /\ variant = "strict"
    /\ \E i \in 1..Len(createReqs) :
          /\ createReqs[i].phase = "fetch"
          /\ S_handleSubmitCatch(i, ErrFailedToFetch)
    /\ UNCHANGED <<variant, calc, answered, formData, checkingPatient, patientFound, patientSearched,
                   availableSlots, loadingAvailability, dniDebounceRef, timers,
                   patientReqs, availReqs, edits, lastDone>>

S_CreateFetchResolves ==
    /\ variant = "strict"
    /\ \E i \in 1..Len(createReqs) : \E ok \in BOOLEAN :
          /\ createReqs[i].phase = "fetch"
          /\ createReqs' = [createReqs EXCEPT ![i].phase = "json", ![i].ok = ok]
    /\ UNCHANGED <<variant, calc, answered, formData, loading, checkingPatient, patientFound,
                   patientSearched, availableSlots, loadingAvailability, success,
                   error, dniDebounceRef, timers, patientReqs, availReqs, edits,
                   lastDone>>

\* err.message of reading .message of null.
ErrNullMessage == "Cannot read properties of null (reading 'message')"

\* The message of what the non-OK branch throws: response.json() is awaited
\* unguarded, so its rejection and a null body throw their own errors.
S_errorMessage(parsed, errorData) ==
    IF ~parsed THEN ErrBadJson
    ELSE IF errorData.isNull THEN ErrNullMessage
    ELSE OrElse(errorData.message, ErrCreate, "")

S_CreateJson ==
    /\ variant = "strict"
    /\ \E i \in 1..Len(createReqs) : \E parsed \in BOOLEAN : \E body \in CreateBodies :
          /\ createReqs[i].phase = "json"
          /\ IF ~createReqs[i].ok
             THEN S_handleSubmitCatch(i, S_errorMessage(parsed, body))
             ELSE IF ~parsed
                  THEN S_handleSubmitCatch(i, ErrBadJson)
                  ELSE /\ success' = TRUE
                       /\ loading' = FALSE
                       /\ createReqs' = RemoveAt(createReqs, i)
                       /\ UNCHANGED error
    /\ UNCHANGED <<variant, calc, answered, formData, checkingPatient, patientFound, patientSearched,
                   availableSlots, loadingAvailability, dniDebounceRef, timers,
                   patientReqs, availReqs, edits, lastDone>>

Next ==
    \/ R_EditField
    \/ R_ClickSlot
    \/ R_TimerFires
    \/ R_PatientFetchRejects
    \/ R_PatientFetchResolves
    \/ R_PatientJson
    \/ R_AvailFetchRejects
    \/ R_AvailFetchResolves
    \/ R_AvailJson
    \/ R_Submit
    \/ R_CreateFetchRejects
    \/ R_CreateFetchResolves
    \/ R_CreateJson
    \/ S_EditField
    \/ S_ClickSlot
    \/ S_PatientFetchRejects
    \/ S_PatientFetchResolves
    \/ S_PatientJson
    \/ S_AvailFetchRejects
    \/ S_AvailFetchResolves
    \/ S_AvailJson
    \/ S_Submit
    \/ S_CreateFetchRejects
    \/ S_CreateFetchResolves
    \/ S_CreateJson

Spec == Init /\ [][Next]_vars

\* What the timers of the refined variant guarantee: a debounce timer that is
\* pending fires, and a fetchWithTimeout that has not resolved is rejected by
\* the abort of its timeout (10 s for the lookups, 15 s for the submission).
\* fetchWithTimeout clears that timeout as soon as fetch() resolves with the
\* headers, so nothing bounds the response.json() that follows, and fetch()
\* of the strict variant has no timeout at all.
FairSpec ==
    /\ Spec
    /\ WF_vars(R_TimerFires)
    /\ WF_vars(R_PatientFetchRejects)
    /\ WF_vars(R_AvailFetchRejects)
    /\ WF_vars(R_CreateFetchRejects)


\* ===================================================== the date computations
\* An instant is a number of minutes since 2025-01-01T00:00Z; a calendar date
\* is [y, mo, d]; tzOffset is the client's offset from UTC in minutes, east
\* positive (-date.getTimezoneOffset()), fixed over the two years modelled.
Day == 24 * 60

\* const WORK_DAYS = [1, 2, 3, 4]
WORK_DAYS == {1, 2, 3, 4}

\* The calendar of 2025 and 2026 (no leap year).
DaysInMonth(mo) ==
    CASE mo \in {4, 6, 9, 11} -> 30
      [] mo = 2 -> 28
      [] OTHER -> 31

RECURSIVE DaysBeforeMonth(_)
DaysBeforeMonth(mo) == IF mo = 1 THEN 0 ELSE DaysBeforeMonth(mo - 1) + DaysInMonth(mo - 1)

\* The number of the day a date names, 2025-01-01 being day 0, and back.
DateToDay(date) == (date.y - 2025) * 365 + DaysBeforeMonth(date.mo) + date.d - 1
DayToDate(n) ==
    LET doy == n % 365
        mo == CHOOSE k \in 1..12 :
                 DaysBeforeMonth(k) <= doy /\ doy < DaysBeforeMonth(k) + DaysInMonth(k)
    IN  [y |-> 2025 + (n \div 365), mo |-> mo, d |-> doy - DaysBeforeMonth(mo) + 1]

\* The day of the week of a day: 0 is Sunday; 2025-01-01 is a Wednesday.
Weekday(n) == (n + 3) % 7

\* The local fields of a Date: the day its local date names and the minutes
\* of its local time (getFullYear/getMonth/getDate, getHours/getMinutes).
LocalDay(t, tzOffset) == (t + tzOffset) \div Day
LocalMinutes(t, tzOffset) == (t + tzOffset) % Day

\* date.getDay()
getDay(t, tzOffset) == Weekday(LocalDay(t, tzOffset))

\* new Date('YYYY-MM-DD'): a date-only string is midnight of that date in UTC.
DateFromISODate(fecha) == DateToDay(fecha) * Day

\* date.setHours(h, m, 0, 0): that time on the local date of the instant.
setHours(t, h, m, tzOffset) == LocalDay(t, tzOffset) * Day + h * 60 + m - tzOffset

\* toLocalISOStringWithOffset(date): the local fields, then the offset written
\* as sign, hours and minutes.
toLocalISOStringWithOffset(t, tzOffset) ==
    LET date == DayToDate(LocalDay(t, tzOffset))
        tzo == tzOffset
        abs == IF tzo >= 0 THEN tzo ELSE -tzo
    IN  [y |-> date.y, mo |-> date.mo, d |-> date.d,
         hh |-> LocalMinutes(t, tzOffset) \div 60,
         mi |-> LocalMinutes(t, tzOffset) % 60,
         sign |-> IF tzo >= 0 THEN "+" ELSE "-",
         oh |-> abs \div 60,
         om |-> abs % 60]

\* date.toISOString(): the fields in UTC, then Z (written here as +00:00).
toISOString(t) ==
    LET date == DayToDate(t \div Day)
    IN  [y |-> date.y, mo |-> date.mo, d |-> date.d,
         hh |-> (t % Day) \div 60, mi |-> (t % Day) % 60,
         sign |-> "+", oh |-> 0, om |-> 0]

\* handleSubmit's appointmentISO, from fecha, hora = <<hours, minutes>> (the
\* two parts of 'HH:MM' through parseInt) and the client's offset.
R_appointmentISO(fecha, hora, tzOffset) ==
    LET appointmentDateTime == setHours(DateFromISODate(fecha), hora[1], hora[2], tzOffset)
    IN  toLocalISOStringWithOffset(appointmentDateTime, tzOffset)

S_appointmentISO(fecha, hora, tzOffset) ==
    LET appointmentDateTime == setHours(DateFromISODate(fecha), hora[1], hora[2], tzOffset)
    IN  toISOString(appointmentDateTime)

\* The Dates of the loop of availableDates: d.setDate(today.getDate() + i)
\* for i = 1..14 moves the local date and keeps the local time; those whose
\* getDay() is a work day are kept.
WorkingDates(today, tzOffset) ==
    SelectSeq([i \in 1..14 |-> today + i * Day],
              LAMBDA d : getDay(d, tzOffset) \in WORK_DAYS)

\* availableDates of the refined variant: value is built from getFullYear(),
\* getMonth() + 1 and getDate().
R_availableDates(today, tzOffset) ==
    LET kept == WorkingDates(today, tzOffset)
    IN  [k \in 1..Len(kept) |-> DayToDate(LocalDay(kept[k], tzOffset))]

\* availableDates of the strict variant: value is
\* date.toISOString().split('T')[0].
S_availableDates(today, tzOffset) ==
    LET kept == WorkingDates(today, tzOffset)
        iso(k) == toISOString(kept[k])
    IN  [k \in 1..Len(kept) |-> [y |-> iso(k).y, mo |-> iso(k).mo, d |-> iso(k).d]]

\* The inputs of the date computations: dates offered by the fecha select (a
\* Tuesday, the first of a month, the first of a year), slots, offsets of the
\* client west and east of UTC, and the clock: each day of one week and a
\* day at the end of 2025, early, at noon and late in UTC.
FechaDates == { [y |-> 2025, mo |-> 3, d |-> 4], [y |-> 2025, mo |-> 4, d |-> 1],
                [y |-> 2026, mo |-> 1, d |-> 1] }
Horas == { <<8, 0>>, <<15, 30>>, <<21, 30>> }
TzOffsets == { -8 * 60, -3 * 60, 0, 2 * 60, 5 * 60 + 30, 10 * 60 }
Nows == { n * Day + m : n \in (61..67) \cup {360}, m \in {30, 12 * 60, 23 * 60 + 30} }

\* The state of the component apart from the clock.
componentVars == <<variant, formData, loading, checkingPatient, patientFound, patientSearched,
                   availableSlots, loadingAvailability, success, error, dniDebounceRef,
                   timers, patientReqs, availReqs, createReqs, edits, lastDone,
                   answered>>

PureInit ==
    /\ variant \in {"refined", "strict"}
    /\ formData = EmptyForm
    /\ loading = FALSE
    /\ checkingPatient = FALSE
    /\ patientFound = FALSE
    /\ patientSearched = FALSE
    /\ availableSlots = << >>
    /\ loadingAvailability = FALSE
    /\ success = FALSE
    /\ error = ""
    /\ dniDebounceRef = 0
    /\ timers = {}
    /\ patientReqs = << >>
    /\ availReqs = << >>
    /\ createReqs = << >>
    /\ edits = 0
    /\ lastDone = NoLookup
    /\ answered = << >>
    /\ calc \in { [NoCalc EXCEPT !.fecha = f, !.hora = h, !.now = n, !.tzOffset = o] :
                     f \in FechaDates, h \in Horas, n \in Nows, o \in TzOffsets }

\* handleSubmit builds appointmentISO from fecha and hora.
R_BuildAppointmentISO ==
    /\ variant = "refined"
    /\ ~calc.isoDone
    /\ calc' = [calc EXCEPT !.isoDone = TRUE,
                            !.appointmentISO = R_appointmentISO(calc.fecha, calc.hora, calc.tzOffset)]
    /\ UNCHANGED componentVars

S_BuildAppointmentISO ==
    /\ variant = "strict"
    /\ ~calc.isoDone
    /\ calc' = [calc EXCEPT !.isoDone = TRUE,
                            !.appointmentISO = S_appointmentISO(calc.fecha, calc.hora, calc.tzOffset)]
    /\ UNCHANGED componentVars

\* useMemo computes availableDates from new Date().
R_BuildAvailableDates ==
    /\ variant = "refined"
    /\ ~calc.datesDone
    /\ calc' = [calc EXCEPT !.datesDone = TRUE,
                            !.availableDates = R_availableDates(calc.now, calc.tzOffset)]
    /\ UNCHANGED componentVars

S_BuildAvailableDates ==
    /\ variant = "strict"
    /\ ~calc.datesDone
    /\ calc' = [calc EXCEPT !.datesDone = TRUE,
                            !.availableDates = S_availableDates(calc.now, calc.tzOffset)]
    /\ UNCHANGED componentVars

PureNext ==
    \/ R_BuildAppointmentISO
    \/ S_BuildAppointmentISO
    \/ R_BuildAvailableDates
    \/ S_BuildAvailableDates

PureSpec == PureInit /\ [][PureNext]_vars

\* ------------------------------------------- the normalisation of the dni
\* The characters a text typed or pasted into the dni input is made of here:
\* digits, the three separators and a letter.
RawChars == {"1", "2", ".", "-", " ", "a"}
RECURSIVE RawTexts(_)
RawTexts(n) ==
    IF n = 0 THEN {<< >>}
    ELSE LET shorter == RawTexts(n - 1)
         IN  shorter \cup {Append(t, c) : t \in shorter, c \in RawChars}

\* The refined form as mounted, and the text the dni input is about to
\* receive.
NormInit ==
    /\ variant = "refined"
    /\ formData = EmptyForm
    /\ loading = FALSE
    /\ checkingPatient = FALSE
    /\ patientFound = FALSE
    /\ patientSearched = FALSE
    /\ availableSlots = << >>
    /\ loadingAvailability = FALSE
    /\ success = FALSE
    /\ error = ""
    /\ dniDebounceRef = 0
    /\ timers = {}
    /\ patientReqs = << >>
    /\ availReqs = << >>
    /\ createReqs = << >>
    /\ edits = 0
    /\ lastDone = NoLookup
    /\ answered = << >>
    /\ calc \in { [NoCalc EXCEPT !.rawValue = t] : t \in RawTexts(MaxRawLen) \ {<< >>} }

\* onChange={(e) => handleInputChange('dni', e.target.value)} with that text.
R_TypeDni ==
    /\ variant = "refined"
    /\ edits = 0
    /\ edits' = 1
    /\ R_handleInputChange("dni", calc.rawValue)

NormNext == R_TypeDni

NormSpec == NormInit /\ [][NormNext]_vars

\* ------------------------------------ typing while a patient lookup is out
\* LookupSpec starts when the lookup for the dni typed into an empty form has
\* just been issued (in the refined variant the debounce timer has fired) and
\* follows the patient inputs and that lookup: every value a patient field
\* holds before the response is handled was typed after the request was
\* issued.
LookupInit ==
    /\ variant \in {"refined", "strict"}
    /\ formData = [EmptyForm EXCEPT !.dni = DniB]
    /\ loading = FALSE
    /\ checkingPatient = TRUE
    /\ patientFound = FALSE
    /\ patientSearched = FALSE
    /\ availableSlots = << >>
    /\ loadingAvailability = FALSE
    /\ success = FALSE
    /\ error = ""
    /\ dniDebounceRef = IF variant = "refined" THEN 1 ELSE 0
    /\ timers = {}
    /\ patientReqs = <<[dni |-> DniB, phase |-> "fetch", stale |-> FALSE]>>
    /\ availReqs = << >>
    /\ createReqs = << >>
    /\ edits = 1
    /\ lastDone = NoLookup
    /\ answered = << >>
    /\ calc = NoCalc

\* An onChange of one of the inputs of the patient's data.
R_EditPatientField ==
    /\ variant = "refined"
    /\ ~success
    /\ edits < MaxEdits
    /\ edits' = edits + 1
    /\ \E field \in PatientFields : \E rawValue \in RawInputs(field) :
          /\ rawValue # formData[field]
          /\ R_handleInputChange(field, rawValue)

S_EditPatientField ==
    /\ variant = "strict"
    /\ ~success
    /\ edits < MaxEdits
    /\ edits' = edits + 1
    /\ \E field \in PatientFields : \E value \in RawInputs(field) :
          /\ value # formData[field]
          /\ S_handleInputChange(field, value)

LookupNext ==
    \/ R_EditPatientField
    \/ R_PatientFetchRejects
    \/ R_PatientFetchResolves
    \/ R_PatientJson
    \/ S_EditPatientField
    \/ S_PatientFetchRejects
    \/ S_PatientFetchResolves
    \/ S_PatientJson

LookupSpec == LookupInit /\ [][LookupNext]_vars

\* ------------------------------------- the availability lookups, with a log
\* AvailSpec follows the selects, the slot buttons and the submit button of
\* a form whose patient fields are filled in, up to the moment the appointment
\* creation is requested, and keeps in answered one entry
\* per availability lookup that completed, in the order of completion: the
\* fecha and duration the request was issued for, whether the response was
\* OK, and the slot list of its body when the body carried one.
NoList(req, ok) ==
    [fecha |-> req.fecha, duration |-> req.duration, ok |-> ok,
     hasList |-> FALSE, slots |-> << >>]
Answer(req, data) ==
    [fecha |-> req.fecha, duration |-> req.duration, ok |-> req.ok,
     hasList |-> ~data.isNull /\ data.hasSlots,
     slots |-> IF ~data.isNull /\ data.hasSlots THEN data.slots ELSE << >>]

\* The form after the user has typed a dni that the lookup does not know, a
\* name and a telephone number; edits counts the changes made from here on.
AvailInit ==
    /\ variant \in {"refined", "strict"}
    /\ formData = [EmptyForm EXCEPT !.dni = DniB, !.nombre = "Ana",
                                     !.telefono = IF variant = "refined"
                                                  THEN StripSeparators(TelLong)
                                                  ELSE TelLong]
    /\ loading = FALSE
    /\ checkingPatient = FALSE
    /\ patientFound = FALSE
    /\ patientSearched = (variant = "refined")
    /\ availableSlots = << >>
    /\ loadingAvailability = FALSE
    /\ success = FALSE
    /\ error = ""
    /\ dniDebounceRef = IF variant = "refined" THEN 1 ELSE 0
    /\ timers = {}
    /\ patientReqs = << >>
    /\ availReqs = << >>
    /\ createReqs = << >>
    /\ edits = 0
    /\ lastDone = Completed(DniB, [isNull |-> FALSE, found |-> FALSE, hasPatient |-> FALSE,
                                    patient |-> PatientWith({})])
    /\ answered = << >>
    /\ calc = NoCalc

\* What a completed availability lookup leaves alone.
AvailFrame ==
    UNCHANGED <<variant, calc, formData, loading, checkingPatient, patientFound,
                patientSearched, success, error, dniDebounceRef, timers,
                patientReqs, createReqs, edits, lastDone>>

\* An onChange of the tipoTurno or of the fecha select.
R_EditSchedule ==
    /\ variant = "refined"
    /\ ~success
    /\ edits < MaxScheduleEdits
    /\ edits' = edits + 1
    /\ \E field \in {"tipoTurno", "fecha"} : \E rawValue \in RawInputs(field) :
          /\ rawValue # formData[field]
          /\ R_handleInputChange(field, rawValue)

S_EditSchedule ==
    /\ variant = "strict"
    /\ ~success
    /\ edits < MaxScheduleEdits
    /\ edits' = edits + 1
    /\ \E field \in {"tipoTurno", "fecha"} : \E value \in RawInputs(field) :
          /\ value # formData[field]
          /\ S_handleInputChange(field, value)

\* R_AvailFetchRejects, R_AvailFetchResolves and R_AvailJson, logged.
R_AvailFetchRejectsLogged ==
    /\ variant = "refined"
    /\ \E i \in 1..Len(availReqs) :
          /\ availReqs[i].phase = "fetch"
          /\ R_getAvailableSlotsCatch(i)
          /\ answered' = Append(answered, NoList(availReqs[i], FALSE))
    /\ AvailFrame

R_AvailFetchResolvesLogged ==
    /\ variant = "refined"
    /\ \E i \in 1..Len(availReqs) : \E ok \in BOOLEAN :
          /\ availReqs[i].phase = "fetch"
          /\ IF ~ok
             THEN /\ R_getAvailableSlotsCatch(i)
                  /\ answered' = Append(answered, NoList(availReqs[i], FALSE))
             ELSE /\ availReqs' = [availReqs EXCEPT ![i].phase = "json", ![i].ok = TRUE]
                  /\ UNCHANGED <<availableSlots, loadingAvailability, answered>>
    /\ AvailFrame

R_AvailJsonLogged ==
    /\ variant = "refined"
    /\ \E i \in 1..Len(availReqs) :
          /\ availReqs[i].phase = "json"
          /\ \/ /\ R_getAvailableSlotsCatch(i)
                /\ answered' = Append(answered, NoList(availReqs[i], availReqs[i].ok))
             \/ \E data \in AvailBodies :
                   /\ R_getAvailableSlotsData(i, data)
                   /\ answered' = Append(answered, Answer(availReqs[i], data))
    /\ AvailFrame

\* S_AvailFetchRejects and S_AvailJson, logged.
S_AvailFetchRejectsLogged ==
    /\ variant = "strict"
    /\ \E i \in 1..Len(availReqs) :
          /\ availReqs[i].phase = "fetch"
          /\ S_getAvailableSlotsCatch(i)
          /\ answered' = Append(answered, NoList(availReqs[i], FALSE))
    /\ AvailFrame

S_AvailJsonLogged ==
    /\ variant = "strict"
    /\ \E i \in 1..Len(availReqs) :
          /\ availReqs[i].phase = "json"
          /\ \/ /\ S_getAvailableSlotsCatch(i)
                /\ answered' = Append(answered, NoList(availReqs[i], availReqs[i].ok))
             \/ \E data \in AvailBodies :
                   /\ S_getAvailableSlotsData(i, data)
                   /\ answered' = Append(answered, Answer(availReqs[i], data))
    /\ AvailFrame

AvailNext ==
    \/ R_EditSchedule
    \/ R_ClickSlot
    \/ R_AvailFetchRejectsLogged
    \/ R_AvailFetchResolvesLogged
    \/ R_AvailJsonLogged
    \/ R_Submit
    \/ S_EditSchedule
    \/ S_ClickSlot
    \/ S_AvailFetchRejectsLogged
    \/ S_AvailFetchResolves
    \/ S_AvailJsonLogged
    \/ S_Submit

AvailSpec == AvailInit /\ [][AvailNext]_vars


\* ================================================================== claims
\* The required fields of a form are all non-empty.
RequiredFilled(fd) ==
    /\ fd.dni # << >>
    /\ fd.nombre # ""
    /\ fd.telefono # << >>
    /\ fd.tipoTurno # ""
    /\ fd.fecha # ""
    /\ fd.hora # ""

\* The number of digits in a sequence of characters.
DigitCount(str) == Cardinality({i \in 1..Len(str) : str[i] \in Digits})

\* This step completes a patient lookup (its request leaves the flight).
PatientLookupCompletes == Len(patientReqs') < Len(patientReqs)

\* The duration the appointment kinds are configured with.
ConfiguredDuration(tipoTurno) ==
    CASE tipoTurno = "consulta" -> 30
      [] tipoTurno = "limpieza" -> 45
      [] tipoTurno = "ensenanza" -> 30
      [] tipoTurno = "caries_chicos" -> 45
      [] tipoTurno = "caries_grandes" -> 60
      [] tipoTurno = "molde_blanqueamiento" -> 30
      [] tipoTurno = "molde_relajacion" -> 30
      [] tipoTurno = "instalacion_placas" -> 45
      [] tipoTurno = "carillas" -> 90
      [] tipoTurno = "contenciones" -> 45
      [] tipoTurno = "incrustaciones" -> 75

\* The first non-empty of the localized and the English value, else the default.
FirstNonEmpty(localized, english, default, blank) ==
    IF localized # blank THEN localized
    ELSE IF english # blank THEN english
    ELSE default

\* C1: in both variants an appointment creation request is issued only from
\* a state whose dni, nombre, telefono, tipoTurno, fecha and hora are all
\* non-empty; in the refined variant only when, in addition, dni and telefono
\* hold at least 8 digits each.
C1_SubmitOnlyWhenValid ==
    [][Len(createReqs') > Len(createReqs) =>
          /\ RequiredFilled(formData)
          /\ variant = "refined" =>
                /\ DigitCount(formData.dni) >= 8
                /\ DigitCount(formData.telefono) >= 8]_vars

\* C1 witness: the refined variant has issued an appointment creation request.
C1_Witness ==
    /\ variant = "refined"
    /\ createReqs # << >>
    /\ createReqs[1].payload.dni = formData.dni

\* C2 (as claimed): in the refined variant the response of a patient lookup
\* that was issued before one that has already completed changes neither
\* patientFound nor the form.
C2_OlderLookupNeverOverwrites ==
    [][variant = "refined" =>
          \A i \in 1..Len(patientReqs) :
             (/\ patientReqs[i].stale
              /\ patientReqs' = RemoveAt(MarkStale(patientReqs, i), i))
                => (patientFound' = patientFound /\ formData' = formData)]_vars

\* C3 (as claimed): in the refined variant patientFound holds only while the
\* lookup that last completed successfully was issued for the current dni and
\* reported a match.
C3_FoundIsForCurrentDni ==
    (variant = "refined" /\ patientFound) =>
        (lastDone.done /\ lastDone.found /\ lastDone.dni = formData.dni)

\* C4: in the refined variant at most one debounce timer is pending, it
\* carries the normalized dni of the last edit, and an edit of dni issues no
\* lookup; a lookup is issued only by the timer firing, with the value of the
\* last edit, and leaves no timer pending: a burst of edits with no timer
\* firing in between issues at most one lookup, for the final value.
C4_DebounceOneLookupForFinalValue ==
    [][variant = "refined" =>
          /\ Cardinality(timers') <= 1
          /\ \A t \in timers' : t.dni = formData'.dni /\ Len(t.dni) >= 8
          /\ formData'.dni # formData.dni => patientReqs' = patientReqs
          /\ Len(patientReqs') > Len(patientReqs) =>
                /\ timers # {} /\ timers' = {}
                /\ formData' = formData
                /\ patientReqs' = Append(patientReqs,
                       [dni |-> formData.dni, phase |-> "fetch", stale |-> FALSE])]_vars

\* C4 witness: two edits, both of dni (every other field is still blank), and
\* one lookup in flight, for the value of the second edit.
C4_Witness ==
    /\ variant = "refined"
    /\ edits = 2
    /\ formData = [EmptyForm EXCEPT !.dni = StripNonDigits(DniB)]
    /\ timers = {}
    /\ Len(patientReqs) = 1
    /\ patientReqs[1].dni = StripNonDigits(DniB)
    /\ ~lastDone.done /\ ~lastDone.failed

\* C5: in the refined variant an edit that sets dni to fewer than 8
\* characters clears patientFound and patientSearched in that step, issues no
\* patient lookup and leaves no timer pending.
C5_ShortDniClearsWithoutLookup ==
    [][(/\ variant = "refined"
        /\ edits' = edits + 1
        /\ formData'.dni # formData.dni
        /\ Len(formData'.dni) < 8) =>
          /\ ~patientFound'
          /\ ~patientSearched'
          /\ patientReqs' = patientReqs
          /\ timers' = {}]_vars

\* C5 witness: a lookup found the patient, then the second edit shortened dni
\* to seven digits and patientFound is cleared.
C5_Witness ==
    /\ variant = "refined"
    /\ edits = 2
    /\ formData.dni = Dni7
    /\ lastDone.done /\ lastDone.found /\ ~lastDone.failed
    /\ patientReqs = << >>
    /\ ~patientFound /\ ~patientSearched

\* C6: in both variants an edit of fecha or tipoTurno issues an availability
\* request exactly when both are non-empty after the edit, carrying the
\* post-edit fecha and the configured duration of the post-edit tipoTurno;
\* no other step issues one.
C6_AvailabilityForPostEditValues ==
    [][/\ (formData'.fecha # formData.fecha \/ formData'.tipoTurno # formData.tipoTurno) =>
             IF formData'.fecha # "" /\ formData'.tipoTurno # ""
             THEN availReqs' = Append(availReqs,
                      [fecha |-> formData'.fecha,
                       duration |-> ConfiguredDuration(formData'.tipoTurno),
                       phase |-> "fetch", ok |-> FALSE])
             ELSE availReqs' = availReqs
       /\ Len(availReqs') > Len(availReqs) =>
             /\ formData'.fecha # formData.fecha \/ formData'.tipoTurno # formData.tipoTurno
             /\ formData'.fecha # "" /\ formData'.tipoTurno # ""]_vars

\* C6 witness: tipoTurno was changed from consulta to carillas with fecha set:
\* the request for 30 minutes is followed by one for 90 minutes.
C6_Witness ==
    /\ Len(availReqs) = 2
    /\ availReqs[1].duration = 30
    /\ availReqs[2].duration = 90
    /\ formData.tipoTurno = "carillas"
    /\ availReqs[2].fecha = formData.fecha

\* C7 (as claimed): in each variant an availability lookup that fails (fetch
\* rejects, or the status is not OK) empties availableSlots and leaves error
\* unchanged, and no completion of an availability lookup changes error.
C7_FailedAvailabilityClearsSlots ==
    [][/\ \A i \in 1..Len(availReqs) :
             (/\ availReqs' = RemoveAt(availReqs, i)
              /\ (availReqs[i].phase = "fetch" \/ ~availReqs[i].ok))
                => (availableSlots' = << >> /\ error' = error)
       /\ Len(availReqs') < Len(availReqs) => error' = error]_vars

\* C8: in both variants a patient lookup that fails sets error to the retry
\* message and patientFound to false and leaves every field of the form as it
\* was.
C8_FailedLookupKeepsForm ==
    [][(PatientLookupCompletes /\ lastDone'.failed) =>
          /\ error' = "Error al verificar el paciente. Intenta nuevamente."
          /\ ~patientFound'
          /\ formData' = formData]_vars

\* C8 witness: a lookup has failed while the user had typed a nombre, which
\* is still there.
C8_Witness ==
    /\ lastDone.failed
    /\ error = ErrCheckPatient
    /\ formData.nombre = "Ana"
    /\ ~patientFound

\* C9: in the strict variant a lookup that completes without a match blanks
\* nombre, telefono, obraSocial, numeroAfiliado, alergias and antecedentes,
\* sets patientFound to false and leaves dni, tipoTurno, fecha and hora.
C9_NoMatchBlanksPatientFields ==
    [][(/\ variant = "strict"
        /\ PatientLookupCompletes
        /\ ~lastDone'.failed
        /\ ~lastDone'.found) =>
          /\ \A f \in PatientFields : formData'[f] = Blank(f)
          /\ ~patientFound'
          /\ \A f \in {"dni", "tipoTurno", "fecha", "hora"} : formData'[f] = formData[f]]_vars

\* C9 witness: the strict variant handled a lookup without a match while
\* tipoTurno, fecha and hora were chosen: they are kept, the patient fields
\* are blank.
C9_Witness ==
    /\ variant = "strict"
    /\ lastDone.done /\ ~lastDone.found /\ ~lastDone.failed
    /\ patientReqs = << >>
    /\ formData.tipoTurno # "" /\ formData.fecha # "" /\ formData.hora # ""
    /\ \A f \in PatientFields : formData[f] = Blank(f)

\* C10: in both variants a lookup that completes with a match writes, into
\* each patient field, the first non-empty of the record's localized and
\* English key (blank, or Ninguna/Ninguno for alergias/antecedentes, when
\* both are missing), sets patientFound and leaves dni, tipoTurno, fecha and
\* hora.
C10_MatchFillsPatientFields ==
    [][(PatientLookupCompletes /\ ~lastDone'.failed /\ lastDone'.found) =>
          LET p == lastDone'.patient
          IN  /\ formData'.nombre = FirstNonEmpty(p.nombre, p.name, "", "")
              /\ formData'.telefono = FirstNonEmpty(p.telefono, p.phone, << >>, << >>)
              /\ formData'.obraSocial = FirstNonEmpty(p.obraSocial, p.insurance, "", "")
              /\ formData'.numeroAfiliado =
                    FirstNonEmpty(p.numeroAfiliado, p.affiliateNumber, "", "")
              /\ formData'.alergias = FirstNonEmpty(p.alergias, p.allergies, "Ninguna", "")
              /\ formData'.antecedentes =
                    FirstNonEmpty(p.antecedentes, p.background, "Ninguno", "")
              /\ patientFound'
              /\ \A f \in {"dni", "tipoTurno", "fecha", "hora"} :
                    formData'[f] = formData[f]]_vars

\* C10 witness: a record holding every key was matched while tipoTurno was
\* chosen: the localized values are in the form.
C10_Witness ==
    /\ lastDone.done /\ lastDone.found /\ ~lastDone.failed
    /\ lastDone.patient = PatientWith(PatientKeys)
    /\ patientFound
    /\ formData.nombre = "nombre!"
    /\ formData.alergias = "alergias!"
    /\ formData.tipoTurno # ""

\* This step completes a submission (its request leaves the flight).
SubmissionCompletes == Len(createReqs') < Len(createReqs)

\* This step completes a submission in handleSubmit's catch: only there does
\* a completion write error (handleSubmit has cleared it, and what it writes
\* is never the empty string).
SubmissionFails == SubmissionCompletes /\ error' # error

\* C11 (as claimed): a lookup that matches a record holding neither spelling
\* of alergias (of antecedentes) does not write the default into that field
\* of the form: the field is blank or as it was.
C11_LookupDoesNotDefaultMedicalFields ==
    [][(PatientLookupCompletes /\ ~lastDone'.failed /\ lastDone'.found) =>
          LET p == lastDone'.patient
          IN  /\ (p.alergias = "" /\ p.allergies = "") =>
                    formData'.alergias \in {"", formData.alergias}
              /\ (p.antecedentes = "" /\ p.background = "") =>
                    formData'.antecedentes \in {"", formData.antecedentes}]_vars

\* C12: in both variants the payload of the request a submission issues is
\* the form of that moment: the six patient and appointment texts copied,
\* alergias and antecedentes replaced by Ninguna and Ninguno exactly when
\* blank, the name and duration configured for tipoTurno, the business
\* timezone, and isNewPatient the negation of patientFound.
C12_PayloadIsFormAtSubmit ==
    [][Len(createReqs') > Len(createReqs) =>
          LET p == createReqs'[Len(createReqs')].payload
          IN  /\ Len(createReqs') = Len(createReqs) + 1
              /\ \A f \in {"dni", "nombre", "telefono", "obraSocial", "numeroAfiliado",
                           "tipoTurno"} : p[f] = formData[f]
              /\ p.alergias = (IF formData.alergias = "" THEN "Ninguna" ELSE formData.alergias)
              /\ p.antecedentes =
                    (IF formData.antecedentes = "" THEN "Ninguno" ELSE formData.antecedentes)
              /\ \E t \in APPOINTMENT_TYPES :
                    /\ t.id = formData.tipoTurno
                    /\ p.tipoTurnoNombre = t.name
                    /\ p.duracion = t.duration
              /\ p.duracion = ConfiguredDuration(formData.tipoTurno)
              /\ p.timezone = "America/Argentina/Buenos_Aires"
              /\ p.isNewPatient = ~patientFound]_vars

\* C12 witness: the refined variant has issued a submission from a form whose
\* alergias is blank and whose antecedentes is not: the payload holds the
\* default for the first and the text of the second.
C12_Witness ==
    /\ variant = "refined"
    /\ createReqs # << >>
    /\ formData.alergias = ""
    /\ createReqs[1].payload.alergias = "Ninguna"
    /\ formData.antecedentes # ""
    /\ createReqs[1].payload.antecedentes = formData.antecedentes
    /\ createReqs[1].payload.nombre = formData.nombre

\* The messages an error body of the appointment creation can carry.
BodyMessages == {b.message : b \in CreateBodies} \ {""}

\* C13 (as claimed): in each variant the error shown when a submission is
\* answered with a status that is not OK is the message of an error body or
\* the generic message -- the generic one too when the body is no JSON.
C13_NonOkShowsBodyMessageOrGeneric ==
    [][\A i \in 1..Len(createReqs) :
          (/\ createReqs[i].phase = "json"
           /\ ~createReqs[i].ok
           /\ createReqs' = RemoveAt(createReqs, i))
             => error' \in BodyMessages \cup {"Error al crear el turno"}]_vars

\* C14: in both variants loading is true exactly while a submission is in
\* flight: from the step that issues it to the step that completes it, and
\* false once it has completed, however it completed.
C14_LoadingWhileSubmitting ==
    /\ loading <=> createReqs # << >>
    /\ Len(createReqs) <= 1

\* C14 witness: a submission of the refined variant has ended by the abort of
\* its timeout and loading is false again.
C14_Witness ==
    /\ variant = "refined"
    /\ error = ErrAborted
    /\ createReqs = << >>
    /\ ~loading
    /\ ~success

\* C16 (as claimed): once success is true no request is issued and formData,
\* patientFound, availableSlots and error stay as they are.
C16_ConfirmedIsTerminal ==
    [][success =>
          /\ Len(patientReqs') <= Len(patientReqs)
          /\ Len(availReqs') <= Len(availReqs)
          /\ Len(createReqs') <= Len(createReqs)
          /\ formData' = formData
          /\ patientFound' = patientFound
          /\ availableSlots' = availableSlots
          /\ error' = error]_vars

\* C17: in both variants a submission that fails leaves the form,
\* patientFound and availableSlots as they were and success false; of the
\* state of the component it changes error and loading alone.
C17_FailedSubmitKeepsData ==
    [][SubmissionFails =>
          /\ formData' = formData
          /\ patientFound' = patientFound
          /\ availableSlots' = availableSlots
          /\ ~success'
          /\ UNCHANGED <<checkingPatient, patientSearched, loadingAvailability,
                         dniDebounceRef, timers, patientReqs, availReqs>>]_vars

\* C17 witness: a submission was refused with the message of its error body;
\* the form is still complete and can be submitted again.
C17_Witness ==
    /\ error = "Horario ocupado"
    /\ createReqs = << >>
    /\ ~loading
    /\ ~success
    /\ RequiredFilled(formData)
    /\ formData.hora \in {"10:00", "15:30"}

\* C15 (as claimed): in the refined variant every remote call ends, by its
\* timeout at the latest, so checkingPatient, loadingAvailability and loading
\* each return to false whatever the server does.
C15_EveryCallEndsByItsTimeout ==
    /\ (variant = "refined" /\ checkingPatient) ~> ~checkingPatient
    /\ (variant = "refined" /\ loadingAvailability) ~> ~loadingAvailability
    /\ (variant = "refined" /\ loading) ~> ~loading

\* The instant a written timestamp names, and the offset of the business
\* timezone America/Argentina/Buenos_Aires (UTC-03:00).
InstantOf(iso) ==
    DateToDay([y |-> iso.y, mo |-> iso.mo, d |-> iso.d]) * Day + iso.hh * 60 + iso.mi
      - (IF iso.sign = "-" THEN -1 ELSE 1) * (iso.oh * 60 + iso.om)
BusinessOffset == -3 * 60

\* C18 (as claimed): in each variant, for every fecha, hora and client
\* offset, the instant written in fechaHora has, read in the business
\* timezone, the time of day hora.
C18_FechaHoraIsHoraInBusinessZone ==
    calc.isoDone =>
        (InstantOf(calc.appointmentISO) + BusinessOffset) % Day
            = calc.hora[1] * 60 + calc.hora[2]

\* C19 (as claimed): in the refined variant, for every client offset, the
\* date written in fechaHora is fecha and the time written is hora.
C19_FechaHoraWritesFechaAndHora ==
    (variant = "refined" /\ calc.isoDone) =>
        /\ [y |-> calc.appointmentISO.y, mo |-> calc.appointmentISO.mo,
            d |-> calc.appointmentISO.d] = calc.fecha
        /\ <<calc.appointmentISO.hh, calc.appointmentISO.mi>> = calc.hora

\* C20 (as claimed): in each variant, for every now and client offset, every
\* value of availableDates names a Monday, Tuesday, Wednesday or Thursday
\* that lies 1 to 14 days after today's local date, and there are as many
\* values as such days among the 14 days after today.
C20_AvailableDatesAreWorkDays ==
    calc.datesDone =>
        LET today == LocalDay(calc.now, calc.tzOffset)
        IN  /\ \A k \in 1..Len(calc.availableDates) :
                  LET n == DateToDay(calc.availableDates[k])
                  IN  /\ Weekday(n) \in {1, 2, 3, 4}
                      /\ n - today \in 1..14
            /\ Len(calc.availableDates) =
                  Cardinality({i \in 1..14 : Weekday(today + i) \in {1, 2, 3, 4}})


\* ------------------------------------------------------------------- C21
\* The digits of a text, in the order they stand in it.
RECURSIVE DigitsOf(_)
DigitsOf(t) ==
    IF t = << >> THEN << >>
    ELSE IF Head(t) \in {"0", "1", "2", "3", "4", "5", "6", "7", "8", "9"}
         THEN <<Head(t)>> \o DigitsOf(Tail(t))
         ELSE DigitsOf(Tail(t))

\* C21: in the refined variant, for every raw input the value stored in dni
\* is made of the digits of the input only, in their original order, and
\* normalising that stored value again changes nothing.
C21_DniIsDigitsOfInput ==
    edits = 1 =>
        /\ formData.dni = DigitsOf(calc.rawValue)
        /\ \A i \in 1..Len(formData.dni) : formData.dni[i] \in Digits
        /\ R_normalize("dni", formData.dni) = formData.dni

\* A text of digits and other characters has been typed: the digits are
\* stored, in order.
C21_Witness ==
    /\ edits = 1
    /\ calc.rawValue = <<"2", "a", "1">>
    /\ formData.dni = <<"2", "1">>


\* ------------------------------------------------------------------- C22
\* The fecha and the duration the form asks availability for now.
FormKey == <<formData.fecha, FindType(formData.tipoTurno).duration>>
EntryKey(e) == <<e.fecha, e.duration>>
Last(log) == log[Len(log)]

\* C22: availability lookups are not sequenced: the slot list of the
\* response handled last is what availableSlots holds, whichever request was
\* issued last; so when the request issued earlier resolves last,
\* availableSlots holds its list under the fecha and tipoTurno of the later
\* request.
C22_LastHandledResponseWins ==
    (answered # << >> /\ Last(answered).hasList) => availableSlots = Last(answered).slots

\* Two lookups have completed and none is in flight; the one for the fecha
\* and tipoTurno on display was answered first, without slots, and the one
\* issued before it was answered last: its slots are on display.
C22_Witness ==
    /\ variant = "refined"
    /\ availReqs = << >>
    /\ formData.fecha # "" /\ formData.tipoTurno # ""
    /\ Len(answered) = 2
    /\ EntryKey(answered[1]) = FormKey
    /\ answered[1].hasList /\ answered[1].slots = << >>
    /\ EntryKey(answered[2]) # FormKey
    /\ answered[2].hasList /\ answered[2].slots = <<"10:00">>
    /\ availableSlots = <<"10:00">>


\* ------------------------------------------------------------------- C23
\* The entries of a slot list.
SlotsOf(list) == {list[i] : i \in 1..Len(list)}

\* C23: in every reachable state where hora is not empty, an availability
\* lookup has completed successfully (its response was OK) and returned a
\* slot list that contains that hora.
C23_HoraComesFromASuccessfulLookup ==
    formData.hora # "" =>
        \E n \in 1..Len(answered) :
            /\ answered[n].ok
            /\ answered[n].hasList
            /\ formData.hora \in SlotsOf(answered[n].slots)


\* ------------------------------------------------------------------- C24
\* C24: in both variants, a step that issues an availability lookup, that
\* handles the response of one (success or failure), or that edits fecha or
\* tipoTurno leaves hora as it was, also when the refreshed availableSlots
\* does not contain it or is empty.
C24_LookupsAndScheduleEditsKeepHora ==
    [][ ( \/ availReqs' # availReqs
          \/ availableSlots' # availableSlots
          \/ formData'.fecha # formData.fecha
          \/ formData'.tipoTurno # formData.tipoTurno )
        => formData'.hora = formData.hora ]_vars

\* A selected hora outlives the refresh: the lookups have all completed and
\* the list on display does not contain the hora selected before.
C24_Witness ==
    /\ formData.hora = "15:30"
    /\ availReqs = << >>
    /\ availableSlots = <<"10:00">>
    /\ Len(answered) >= 2


\* ------------------------------------------------------------------- C25
\* The step issues an Appointment Creation request.
CreateIssued == Len(createReqs') = Len(createReqs) + 1
IssuedPayload == createReqs'[Len(createReqs')].payload
\* The positions in the log of the lookups made for a fecha and a duration
\* whose body carried a slot list.
ListsFor(fecha, duration) ==
    {n \in 1..Len(answered) :
        answered[n].hasList /\ answered[n].fecha = fecha /\ answered[n].duration = duration}
Max(S) == CHOOSE n \in S : \A m \in S : m <= n

\* C25 as stated: whenever an Appointment Creation request is issued, its
\* hora is a member of the slot list most recently returned by an
\* availability lookup made for the submitted fecha and the submitted
\* tipoTurno's duration.
C25_HoraInLatestListForSubmittedKey ==
    [][ CreateIssued =>
          LET made == ListsFor(IssuedPayload.fechaHora[1], IssuedPayload.duracion)
          IN  /\ made # {}
              /\ IssuedPayload.fechaHora[2] \in SlotsOf(answered[Max(made)].slots) ]_vars

\* C25 as amended: whenever an Appointment Creation request is issued, its
\* hora is a member of a slot list that the body of some completed
\* availability lookup carried, whatever fecha and duration it was made for.
C25_HoraInSomeReturnedList ==
    [][ CreateIssued =>
          \E n \in 1..Len(answered) :
              /\ answered[n].hasList
              /\ IssuedPayload.fechaHora[2] \in SlotsOf(answered[n].slots) ]_vars

\* A request was issued with an hora chosen under another fecha: the lookup
\* for the submitted fecha and duration returned an empty list.
C25_Witness ==
    /\ Len(createReqs) = 1
    /\ createReqs[1].payload.fechaHora[2] = "10:00"
    /\ Len(answered) = 2
    /\ answered[1].hasList /\ answered[1].slots = <<"10:00">>
    /\ answered[1].fecha # createReqs[1].payload.fechaHora[1]
    /\ answered[2].hasList /\ answered[2].slots = << >>
    /\ answered[2].fecha = createReqs[1].payload.fechaHora[1]
    /\ answered[2].duration = createReqs[1].payload.duracion


\* ------------------------------------------------------------------- C26
\* C26: in the refined variant, whenever an Appointment Creation payload
\* carries isNewPatient = false, the patient lookup that completed last was
\* issued for the payload's dni and returned a match.
C26_ExistingPatientIsForPayloadDni ==
    [][ (variant = "refined" /\ CreateIssued /\ ~IssuedPayload.isNewPatient) =>
          /\ lastDone.done
          /\ ~lastDone.failed
          /\ lastDone.found
          /\ lastDone.dni = IssuedPayload.dni ]_vars


\* ------------------------------------------------------------------- C27
\* C27 as stated: in both variants the response of a patient lookup neither
\* overwrites nor blanks a value the user typed into nombre, telefono,
\* obraSocial, numeroAfiliado, alergias or antecedentes after the request was
\* issued (in LookupSpec: any value such a field holds when the response is
\* handled).
C27_ResponseKeepsTypedValues ==
    [][ PatientLookupCompletes =>
          \A f \in PatientFields : formData[f] # Blank(f) => formData'[f] = formData[f] ]_vars

\* C27 as amended: in both variants a patient lookup that fails, and in the
\* refined variant also one that completes without a match, neither
\* overwrites nor blanks a value typed into those fields after the request
\* was issued.
C27_FailureAndRefinedNoMatchKeepTypedValues ==
    [][ ( /\ PatientLookupCompletes
          /\ \/ lastDone'.failed
             \/ variant = "refined" /\ ~lastDone'.found )
        => \A f \in PatientFields : formData'[f] = formData[f] ]_vars

\* The refined variant has handled a response without a match; the nombre
\* and the telefono typed while the request was out are still there.
C27_Witness ==
    /\ variant = "refined"
    /\ patientReqs = << >>
    /\ lastDone.done /\ ~lastDone.found /\ ~lastDone.failed
    /\ formData.nombre = "Ana"
    /\ formData.telefono = StripSeparators(TelLong)


\* ------------------------------------------------------------------- C28
\* C28: in both variants checkingPatient is true in every state in which a
\* patient lookup is in flight, and loadingAvailability is true in every
\* state in which an availability lookup is in flight, also when requests of
\* one kind overlap and one of them completes before the others.
C28_FlagsCoverRequestsInFlight ==
    /\ patientReqs # << >> => checkingPatient
    /\ availReqs # << >> => loadingAvailability


\* ------------------------------------------------------------------- C29
\* C29: in both variants an Appointment Creation request is issued only
\* while loading is false and no other one is in flight, so at most one is
\* in flight at any time.
C29_NoOverlappingCreateRequests ==
    [][ CreateIssued => (~loading /\ createReqs = << >> /\ Len(createReqs') = 1) ]_vars

\* A request is in flight while the form on display is still valid: only
\* loading keeps the submit button disabled.
C29_Witness ==
    /\ variant = "refined"
    /\ ~success
    /\ R_isFormValid
    /\ loading
    /\ Len(createReqs) = 1

====
